---- MODULE Spec2Model ----
(***************************************************************************)
(* Model of package sanitize (src/sanitize.go): the three transcoders      *)
(* Stream, Message and MessageFunc.  One call is modelled from its         *)
(* arguments to its return.  The input is the token stream that            *)
(* json.Decoder yields for the source bytes, pulled one token at a time    *)
(* with one token of look-ahead (dec.More); the output is modelled byte    *)
(* by byte, a byte being a one-character string (control characters are    *)
(* named: "BEL" is U+0007, "SOH" is U+0001, "LF" is U+000A).               *)
(***************************************************************************)
EXTENDS Integers, Sequences, FiniteSets, TLC

\* Size of the bufio.Writer buffer of Stream (bufio's default, scaled down).
BufSize == 4

\* Most tokens of one input; an input that long may still go on with the
\* closing delimiters of its open containers.
MaxTokens == 5

\* Most top-level JSON values in one input.
MaxValues == 2

(***************************************************************************)
(* Bytes and strings                                                       *)
(***************************************************************************)
Quote == "\""
Backslash == "\\"
\* prevDelim's zero value (var prevDelim byte)
NoDelim == "NUL"
comma == ","
colon == ":"
Mask == <<"*", "*", "*", "*", "*", "*", "*", "*">>

RECURSIVE Flatten(_)
Flatten(ss) == IF ss = <<>> THEN <<>> ELSE Head(ss) \o Flatten(Tail(ss))

\* strconv.AppendQuote, one character: Go escapes, not JSON escapes.
QuoteChar(c) ==
    CASE c = Quote -> <<Backslash, Quote>>
      [] c = Backslash -> <<Backslash, Backslash>>
      [] c = "BEL" -> <<Backslash, "a">>
      [] c = "LF" -> <<Backslash, "n">>
      [] c = "SOH" -> <<Backslash, "x", "0", "1">>
      [] OTHER -> <<c>>

\* strconv.AppendQuote(nil, s): the double-quoted Go literal of s.
AppendQuote(s) ==
    <<Quote>> \o Flatten([i \in 1..Len(s) |-> QuoteChar(s[i])]) \o <<Quote>>

\* strconv.AppendBool
AppendBool(b) == IF b THEN <<"t", "r", "u", "e">> ELSE <<"f", "a", "l", "s", "e">>

NullText == <<"n", "u", "l", "l">>

(***************************************************************************)
(* Tokens: what dec.Token() returns.  k is the dynamic type of the token   *)
(* (json.Delim, string, json.Number, bool, nil), v its value; a number     *)
(* keeps its literal text (dec.UseNumber).                                 *)
(***************************************************************************)
Tok(k, v) == [k |-> k, v |-> v]
\* the end of the input; v tells what dec.More() answered just before it
\* (TRUE when the input stops right after a ',' or ':')
Eof(more) == Tok("eof", more)
\* a tokenizer error; v tells what dec.More() answered just before it
Err(more) == Tok("err", more)

\* a string with the characters that Go and JSON escape alike
StrA == <<"a", Quote, Backslash, "LF">>
\* a string with control characters that have no short escape in JSON
StrB == <<"b", "BEL", "SOH">>
Strs == {StrA, StrB}
NumLit == <<"1", ".", "5", "0">>

Opens == {Tok("delim", "{"), Tok("delim", "[")}
Closes == {Tok("delim", "}"), Tok("delim", "]")}
Scalars ==
    {Tok("str", s) : s \in Strs}
        \cup {Tok("num", NumLit), Tok("bool", TRUE), Tok("null", <<>>)}
Alphabet == Opens \cup Closes \cup Scalars

IsClose(t) == t.k = "delim" /\ t.v \in {"}", "]"}
IsOpen(t) == t.k = "delim" /\ t.v \in {"{", "["}

(***************************************************************************)
(* json.Decoder's grammar automaton (tokenState and tokenStack), as the    *)
(* source relies on it through dec.Token() and dec.More().                 *)
(***************************************************************************)
Sep(c) == Tok("sep", c)
NewDecoder == [ts |-> "top", stk |-> <<>>, bad |-> FALSE]

ValueAllowed(ts) == ts \in {"top", "arrStart", "arrValue", "objValue"}
ValueEnd(ts) ==
    CASE ts \in {"arrStart", "arrValue"} -> "arrComma"
      [] ts = "objValue" -> "objComma"
      [] OTHER -> ts

Push(d, ts) == [d EXCEPT !.stk = Append(d.stk, d.ts), !.ts = ts]
Pop(d) ==
    [d EXCEPT !.stk = SubSeq(d.stk, 1, Len(d.stk) - 1),
              !.ts = ValueEnd(d.stk[Len(d.stk)])]
Bad(d) == [d EXCEPT !.bad = TRUE]

\* One lexeme (a token, or a ',' or ':' that Token() consumes silently).
DecLex(d, x) ==
    CASE d.bad -> d
      [] x.k = "sep" /\ x.v = colon ->
            IF d.ts = "objColon" THEN [d EXCEPT !.ts = "objValue"] ELSE Bad(d)
      [] x.k = "sep" /\ x.v = comma ->
            IF d.ts = "arrComma" THEN [d EXCEPT !.ts = "arrValue"]
            ELSE IF d.ts = "objComma" THEN [d EXCEPT !.ts = "objKey"]
            ELSE Bad(d)
      [] x.k = "delim" /\ x.v = "[" ->
            IF ValueAllowed(d.ts) THEN Push(d, "arrStart") ELSE Bad(d)
      [] x.k = "delim" /\ x.v = "{" ->
            IF ValueAllowed(d.ts) THEN Push(d, "objStart") ELSE Bad(d)
      [] x.k = "delim" /\ x.v = "]" ->
            IF d.ts \in {"arrStart", "arrComma"} THEN Pop(d) ELSE Bad(d)
      [] x.k = "delim" /\ x.v = "}" ->
            IF d.ts \in {"objStart", "objComma"} THEN Pop(d) ELSE Bad(d)
      [] x.k = "str" /\ d.ts \in {"objStart", "objKey"} ->
            [d EXCEPT !.ts = "objColon"]
      [] OTHER ->
            IF ValueAllowed(d.ts) THEN [d EXCEPT !.ts = ValueEnd(d.ts)] ELSE Bad(d)

\* The separator the source bytes hold in front of token t, if any.
ImpliedSep(d, t) ==
    IF d.ts = "objColon" THEN <<Sep(colon)>>
    ELSE IF d.ts \in {"arrComma", "objComma"} /\ ~IsClose(t) THEN <<Sep(comma)>>
    ELSE <<>>

RECURSIVE DecAll(_, _)
DecAll(d, xs) == IF xs = <<>> THEN d ELSE DecAll(DecLex(d, Head(xs)), Tail(xs))

\* The decoder's state when it reads token t itself (separator consumed).
DecAt(d, t) == DecAll(d, ImpliedSep(d, t))
\* The decoder after a successful Token() that returned t.
DecTok(d, t) == DecLex(DecAt(d, t), t)

\* The grammatical role of token t read in decoder state d.
RoleOf(d, t) ==
    LET at == DecAt(d, t).ts
    IN  CASE t.k = "delim" -> "delim"
          [] at \in {"objStart", "objKey"} -> "key"
          [] at = "objValue" -> "value"
          [] at \in {"arrStart", "arrValue"} -> "elem"
          [] OTHER -> "top"

\* What the next dec.Token() can yield after n tokens and nv top-level
\* values: a token the grammar allows, the end of the input, or an error.
\* An input of more than MaxTokens tokens is one that goes on with nothing
\* but the closing delimiters of its open containers and then ends.
Outcomes(d, n, nv) ==
    IF n <= MaxTokens
    THEN {Eof(FALSE), Err(TRUE), Err(FALSE)}
            \cup (IF d.ts \in {"objColon", "objComma", "arrComma"} THEN {Eof(TRUE)} ELSE {})
            \cup {t \in Closes : ~DecTok(d, t).bad}
            \cup (IF n < MaxTokens /\ (d.ts = "top" => nv < MaxValues)
                  THEN {t \in Opens \cup Scalars : ~DecTok(d, t).bad}
                  ELSE {})
    ELSE IF d.stk = <<>> THEN {Eof(FALSE)} ELSE {t \in Closes : ~DecTok(d, t).bad}

\* dec.More(): the next byte exists and is neither ']' nor '}'.
More(p) ==
    CASE p.k \in {"eof", "err"} -> p.v
      [] OTHER -> ~IsClose(p)

(***************************************************************************)
(* Field matching policies                                                 *)
(***************************************************************************)
\* re *regexp.Regexp: nil, or a pattern given by the names it matches.
NilRe == [nil |-> TRUE, lang |-> {}]
Regexp(lang) == [nil |-> FALSE, lang |-> lang]
MatchString(re, v) == v \in re.lang

\* the (fset, re) pairs of the model
Policies == {<<{}, NilRe>>, <<{StrA}, NilRe>>, <<{}, Regexp({StrB})>>}

\* Matches with the pattern left out
MatchesSetOnly(v, fset, re) == v \in fset

\* _, ok := fset[v]; ok || (re != nil && re.MatchString(v))
Matches(v, fset, re) == v \in fset \/ (~re.nil /\ MatchString(re, v))

\* InvalidPolicy asking for both a set and a pattern
InvalidPolicyEither(fs, r) == r.nil \/ Cardinality(fs) = 0

\* if re == nil && len(fset) == 0 { return errInvalidArguents }
InvalidPolicy(fs, r) == r.nil /\ Cardinality(fs) = 0

\* fn FieldFunc: nil, or a function of (key, value); the callbacks of the
\* model replace the values of the keys in keys by repl and answer
\* (other, false) for every other key.
NilFn == [nil |-> TRUE, keys |-> {}, repl |-> <<>>, other |-> <<>>]
Fn(keys, repl, other) == [nil |-> FALSE, keys |-> keys, repl |-> repl, other |-> other]
FieldFuncs == {NilFn, Fn({StrA}, StrB, Mask)}
CallFn(fn, key, value) ==
    IF key \in fn.keys
    THEN [newValue |-> fn.repl, doReplace |-> TRUE]
    ELSE [newValue |-> fn.other, doReplace |-> FALSE]

\* if fn == nil { return nil, errors.New(...) }
InvalidFunc(f) == f.nil

(***************************************************************************)
(* The loop body of the three transcoders.  l holds the locals             *)
(* ds, cnt, sanitize, prevDelim, key.                                      *)
(***************************************************************************)
NewLocals ==
    [ds |-> <<>>, cnt |-> 0, sanitize |-> FALSE, prevDelim |-> NoDelim, key |-> <<>>]

\* KeyPosition without the look at the separator stack
KeyPositionAnywhere(l) == l.cnt % 2 # 0

\* cnt%2 != 0 && len(ds) > 0 && ds[len(ds)-1] == '{'
KeyPosition(l) == l.cnt % 2 # 0 /\ Len(l.ds) > 0 /\ l.ds[Len(l.ds)] = "{"

\* DelimCase popping the stack for '}' only
DelimCaseNoArrayPop(l, v) ==
    LET ds1 == CASE v \in {"{", "["} -> Append(l.ds, v)
                 [] v = "}" /\ Len(l.ds) > 0 -> SubSeq(l.ds, 1, Len(l.ds) - 1)
                 [] OTHER -> l.ds
    IN  [l EXCEPT !.ds = ds1, !.cnt = 0, !.prevDelim = NoDelim]

\* case json.Delim: the separator stack, cnt = 0, prevDelim = 0
DelimCase(l, v) ==
    LET ds1 == CASE v \in {"{", "["} -> Append(l.ds, v)
                 [] Len(l.ds) > 0 -> SubSeq(l.ds, 1, Len(l.ds) - 1)
                 [] OTHER -> l.ds
    IN  [l EXCEPT !.ds = ds1, !.cnt = 0, !.prevDelim = NoDelim]

\* what the type switch leaves behind: the locals, delim, the bytes written
\* (w), the string that was quoted (v), the calls of fn, the error
Result(l, delim, w, v, calls, err) ==
    [l |-> l, delim |-> delim, w |-> w, v |-> v, calls |-> calls, err |-> err]

\* MatchStringCase without the test of prevDelim
MatchStringCaseAnyDelim(l, t, fset, re) ==
    LET mask == l.sanitize
        v == IF mask THEN Mask ELSE t.v
        l1 == IF mask THEN [l EXCEPT !.sanitize = FALSE] ELSE l
        isKey == KeyPosition(l1)
        l2 == IF isKey /\ Matches(v, fset, re) THEN [l1 EXCEPT !.sanitize = TRUE] ELSE l1
    IN  Result(l2, IF isKey THEN colon ELSE comma, AppendQuote(v), v, <<>>, FALSE)

\* case string of Message and Stream
MatchStringCase(l, t, fset, re) ==
    LET mask == l.sanitize /\ l.prevDelim = colon
        v == IF mask THEN Mask ELSE t.v
        l1 == IF mask THEN [l EXCEPT !.sanitize = FALSE] ELSE l
        isKey == KeyPosition(l1)
        l2 == IF isKey /\ Matches(v, fset, re) THEN [l1 EXCEPT !.sanitize = TRUE] ELSE l1
    IN  Result(l2, IF isKey THEN colon ELSE comma, AppendQuote(v), v, <<>>, FALSE)

\* FuncStringCase without the test of prevDelim
FuncStringCaseAnyDelim(l, t, fn) ==
    LET ask == l.sanitize
        r == CallFn(fn, l.key, t.v)
        v == IF ask /\ r.doReplace THEN r.newValue ELSE t.v
        l1 == IF ask THEN [l EXCEPT !.sanitize = FALSE] ELSE l
        isKey == KeyPosition(l1)
        l2 == IF isKey THEN [l1 EXCEPT !.key = v, !.sanitize = TRUE] ELSE l1
    IN  Result(l2, IF isKey THEN colon ELSE comma, AppendQuote(v), v,
               IF ask THEN <<[key |-> l.key, value |-> t.v]>> ELSE <<>>, FALSE)

\* FuncStringCase taking newValue whatever doReplace says
FuncStringCaseAlways(l, t, fn) ==
    LET ask == l.sanitize /\ l.prevDelim = colon
        r == CallFn(fn, l.key, t.v)
        v == IF ask THEN r.newValue ELSE t.v
        l1 == IF ask THEN [l EXCEPT !.sanitize = FALSE] ELSE l
        isKey == KeyPosition(l1)
        l2 == IF isKey THEN [l1 EXCEPT !.key = v, !.sanitize = TRUE] ELSE l1
    IN  Result(l2, IF isKey THEN colon ELSE comma, AppendQuote(v), v,
               IF ask THEN <<[key |-> l.key, value |-> t.v]>> ELSE <<>>, FALSE)

\* case string of MessageFunc
FuncStringCase(l, t, fn) ==
    LET ask == l.sanitize /\ l.prevDelim = colon
        r == CallFn(fn, l.key, t.v)
        v == IF ask /\ r.doReplace THEN r.newValue ELSE t.v
        l1 == IF ask THEN [l EXCEPT !.sanitize = FALSE] ELSE l
        isKey == KeyPosition(l1)
        l2 == IF isKey THEN [l1 EXCEPT !.key = v, !.sanitize = TRUE] ELSE l1
    IN  Result(l2, IF isKey THEN colon ELSE comma, AppendQuote(v), v,
               IF ask THEN <<[key |-> l.key, value |-> t.v]>> ELSE <<>>, FALSE)

\* OtherCases masking a number that follows a matched key
OtherCasesMasking(l, t) ==
    CASE t.k = "bool" -> Result(l, comma, AppendBool(t.v), <<>>, <<>>, FALSE)
      [] t.k = "delim" -> Result(DelimCase(l, t.v), comma, <<t.v>>, <<>>, <<>>, FALSE)
      [] t.k = "num" ->
            IF l.sanitize /\ l.prevDelim = colon
            THEN Result([l EXCEPT !.sanitize = FALSE], comma, AppendQuote(Mask), <<>>, <<>>, FALSE)
            ELSE Result(l, comma, t.v, <<>>, <<>>, FALSE)
      [] t.k = "null" -> Result(l, comma, NullText, <<>>, <<>>, FALSE)
      [] OTHER -> Result(l, comma, <<>>, <<>>, <<>>, TRUE)

\* the cases of the type switch that the three functions share
OtherCases(l, t) ==
    CASE t.k = "bool" -> Result(l, comma, AppendBool(t.v), <<>>, <<>>, FALSE)
      [] t.k = "delim" -> Result(DelimCase(l, t.v), comma, <<t.v>>, <<>>, <<>>, FALSE)
      [] t.k = "num" -> Result(l, comma, t.v, <<>>, <<>>, FALSE)
      [] t.k = "null" -> Result(l, comma, NullText, <<>>, <<>>, FALSE)
      [] OTHER -> Result(l, comma, <<>>, <<>>, <<>>, TRUE)

\* StreamSwitch masking without the test of prevDelim
StreamSwitchAnyDelim(l, t, fset, re) ==
    IF t.k = "str" THEN MatchStringCaseAnyDelim(l, t, fset, re) ELSE OtherCases(l, t)

\* switch v := t.(type) of Stream
StreamSwitch(l, t, fset, re) ==
    IF t.k = "str" THEN MatchStringCase(l, t, fset, re) ELSE OtherCases(l, t)

\* switch v := t.(type) of Message
MessageSwitch(l, t, fset, re) ==
    IF t.k = "str" THEN MatchStringCase(l, t, fset, re) ELSE OtherCases(l, t)

\* switch v := t.(type) of MessageFunc
MessageFuncSwitch(l, t, fn) ==
    IF t.k = "str" THEN FuncStringCase(l, t, fn) ELSE OtherCases(l, t)

\* WritesSeparator without the look at the kind of token
WritesSeparatorAfterOpen(t, more) == more

\* if dec.More() { if v, ok := t.(json.Delim); !ok || v == '}' || v == ']' {
WritesSeparator(t, more) == more /\ (t.k # "delim" \/ t.v \in {"}", "]"})

\* the separator bytes written after token t: delim and a space
Separator(t, more, delim) == IF WritesSeparator(t, more) THEN <<delim, " ">> ELSE <<>>

\* cnt++ and prevDelim = delim at the end of the loop body
EndOfBody(l, t, more, delim) ==
    [l EXCEPT !.cnt = l.cnt + 1,
              !.prevDelim = IF WritesSeparator(t, more) THEN delim ELSE l.prevDelim]

(***************************************************************************)
(* bufio.Writer over the sink                                              *)
(***************************************************************************)
\* bw.Write, bw.WriteString, bw.WriteRune: p goes to the buffer; a full
\* buffer is flushed to the sink, and bytes that do not fit an empty buffer
\* go to the sink directly.
RECURSIVE BufWrite(_, _, _)
BufWrite(buf, snk, p) ==
    IF Len(p) > BufSize - Len(buf)
    THEN IF buf = <<>>
         THEN [buf |-> <<>>, sink |-> snk \o p]
         ELSE LET n == BufSize - Len(buf)
              IN  BufWrite(<<>>, snk \o buf \o SubSeq(p, 1, n), SubSeq(p, n + 1, Len(p)))
    ELSE [buf |-> buf \o p, sink |-> snk]

\* bw.Flush()
BufFlush(buf, snk) == [buf |-> <<>>, sink |-> snk \o buf]

\* a return that skips the flush
FlushSkipped(buf, snk) == [buf |-> buf, sink |-> snk]

\* defer bw.Flush(): runs on every return of Stream after the policy check
DeferredFlush(buf, snk) == BufFlush(buf, snk)

\* Truncate leaving the bytes of the scratch buffer in place
TruncateKeeps(d) == d

\* if len(dst) > 0 { dst = dst[:0] }
Truncate(d) == IF Len(d) > 0 THEN SubSeq(d, 1, 0) ELSE d

\* scratch buffers a caller may hand to Message and MessageFunc
Scratch == {<<>>, <<"z", "z", "z">>}

\* the (fset, re) the model calls Stream with
StreamArgs == {pol \in Policies : InvalidPolicy(pol[1], pol[2]) \/ ~pol[2].nil}

\* the (dst, fset, re) the model calls Message with
MessageArgs ==
    {a \in Scratch \X Policies :
        \/ InvalidPolicy(a[2][1], a[2][2])
        \/ (a[1] = <<>>) = a[2][2].nil}

\* the (dst, fn) the model calls MessageFunc with
MessageFuncArgs == {a \in Scratch \X FieldFuncs : InvalidFunc(a[2]) \/ a[1] # <<>>}

(***************************************************************************)
(* State of one call                                                       *)
(***************************************************************************)
VARIABLES
    pc,     \* "idle" before the call, "run" inside the loop, "done" after return
    fname,  \* the function called
    fset,   \* argument fset
    re,     \* argument re
    fn,     \* argument fn
    dec,    \* the decoder's grammar state
    peek,   \* what the next dec.Token() will yield
    pulls,  \* calls of dec.Token() so far
    inp,    \* tokens handled so far, each with its grammatical role
    l,      \* the locals ds, cnt, sanitize, prevDelim, key
    dst,    \* Message, MessageFunc: the result buffer
    bw,     \* Stream: bytes held in the bufio.Writer
    sink,   \* Stream: bytes that reached w
    emit,   \* per handled token: the bytes written for it (tok) and for its
            \* separator (sep), the string that was quoted (v), and the
            \* length of the output when the token was written (at)
    calls,  \* MessageFunc: the invocations of fn so far
    ret,    \* the returned values
    scratch,\* Message, MessageFunc: the argument dst as the caller handed it in
    argv,   \* json-sanitize: os.Args[1:]
    stderr, \* json-sanitize: what was written to os.Stderr
    exit,   \* json-sanitize: <<>> while the process runs, then <<status>>
    procs   \* two calls in flight at once: the state of each

\* the state of the command around its one call
cliVars == <<argv, stderr, exit>>
\* the state of the calls in flight at once
parVars == <<procs>>

vars ==
    <<pc, fname, fset, re, fn, dec, peek, pulls, inp, l, dst, bw, sink, emit, calls, ret,
      scratch, cliVars, parVars>>

NoRet == [err |-> "none", nil |-> TRUE, bytes |-> <<>>]
\* return nil, err
RetErr(e) == [err |-> e, nil |-> TRUE, bytes |-> <<>>]
\* return dst, nil
RetBytes(b) == [err |-> "nil", nil |-> FALSE, bytes |-> b]
\* Stream: return err
RetStream(e) == [err |-> e, nil |-> TRUE, bytes |-> <<>>]

\* the calls that run at once
Procs == {1, 2}
\* a call that has not begun
IdleProc ==
    [pc |-> "idle", fname |-> "none", fset |-> {}, re |-> NilRe, fn |-> NilFn, d0 |-> <<>>,
     toks |-> <<>>, end |-> Eof(FALSE), k |-> 1, l |-> NewLocals, dst |-> <<>>,
     bw |-> <<>>, sink |-> <<>>, ret |-> NoRet, overlap |-> FALSE]

Init ==
    /\ pc = "idle"
    /\ fname = "none"
    /\ fset = {}
    /\ re = NilRe
    /\ fn = NilFn
    /\ dec = NewDecoder
    /\ peek = Eof(FALSE)
    /\ pulls = 0
    /\ inp = <<>>
    /\ l = NewLocals
    /\ dst = <<>>
    /\ bw = <<>>
    /\ sink = <<>>
    /\ emit = <<>>
    /\ calls = <<>>
    /\ ret = NoRet
    /\ scratch = <<>>
    /\ argv = <<>>
    /\ stderr = <<>>
    /\ exit = <<>>
    /\ procs = [i \in Procs |-> IdleProc]

\* the source bytes handed to the call: the first token they hold
FirstOutcomes == {p \in Outcomes(NewDecoder, 0, 0) : p # Err(TRUE)}

\* the complete top-level values among the tokens handled so far
TopValues(in) == Cardinality({i \in 1..Len(in) : in[i].depth = 0})

\* Stream(w, r, fset, re)
CallStream ==
    /\ pc = "idle"
    /\ \E pol \in StreamArgs, p \in FirstOutcomes :
        /\ fname' = "Stream"
        /\ fset' = pol[1]
        /\ re' = pol[2]
        /\ IF InvalidPolicy(pol[1], pol[2])
           THEN /\ pc' = "done"
                /\ ret' = RetStream("config")
                /\ peek' = peek
           ELSE /\ pc' = "run"
                /\ ret' = ret
                /\ peek' = p
    /\ UNCHANGED <<fn, dec, pulls, inp, l, dst, bw, sink, emit, calls, scratch>>
    /\ UNCHANGED <<cliVars, parVars>>

\* Message(dst, src, fset, re)
CallMessage ==
    /\ pc = "idle"
    /\ \E a \in MessageArgs, p \in FirstOutcomes :
      LET d == a[1]
          pol == a[2]
      IN
        /\ fname' = "Message"
        /\ scratch' = d
        /\ fset' = pol[1]
        /\ re' = pol[2]
        /\ IF InvalidPolicy(pol[1], pol[2])
           THEN /\ pc' = "done"
                /\ ret' = RetErr("config")
                /\ peek' = peek
                /\ dst' = dst
           ELSE /\ pc' = "run"
                /\ ret' = ret
                /\ peek' = p
                /\ dst' = Truncate(d)
    /\ UNCHANGED <<fn, dec, pulls, inp, l, bw, sink, emit, calls>>
    /\ UNCHANGED <<cliVars, parVars>>

\* MessageFunc(dst, src, fn)
CallMessageFunc ==
    /\ pc = "idle"
    /\ \E a \in MessageFuncArgs, p \in FirstOutcomes :
      LET d == a[1]
          f == a[2]
      IN
        /\ fname' = "MessageFunc"
        /\ scratch' = d
        /\ fn' = f
        /\ IF InvalidFunc(f)
           THEN /\ pc' = "done"
                /\ ret' = RetErr("config")
                /\ peek' = peek
                /\ dst' = dst
           ELSE /\ pc' = "run"
                /\ ret' = ret
                /\ peek' = p
                /\ dst' = Truncate(d)
    /\ UNCHANGED <<fset, re, dec, pulls, inp, l, bw, sink, emit, calls>>
    /\ UNCHANGED <<cliVars, parVars>>

\* what can follow the token about to be handled
NextOutcomes ==
    LET d == DecTok(dec, peek)
    IN  Outcomes(d, Len(inp) + 1, TopValues(inp) + (IF Len(d.stk) = 0 THEN 1 ELSE 0))

\* The part of one loop iteration that the three functions share: token t
\* is pulled, r is what the type switch made of it, and the input goes on
\* with p.
Handled(t, r, p) ==
    LET more == More(p)
    IN  /\ pulls' = pulls + 1
        /\ inp' = Append(inp, [tok |-> t, role |-> RoleOf(dec, t),
                            depth |-> Len(DecTok(dec, t).stk)])
        /\ dec' = DecTok(dec, t)
        /\ peek' = p
        /\ l' = EndOfBody(r.l, t, more, r.delim)
        /\ emit' = Append(emit, [tok |-> r.w, v |-> r.v,
                              sep |-> Separator(t, more, r.delim),
                              at |-> Len(bw) + Len(sink) + Len(dst)])
        /\ calls' = calls \o [i \in 1..Len(r.calls) |->
                                [key |-> r.calls[i].key, value |-> r.calls[i].value,
                                 at |-> Len(inp) + 1]]

\* one iteration of Stream's loop on a token
StreamToken ==
    /\ pc = "run" /\ fname = "Stream" /\ peek.k \notin {"eof", "err"}
    /\ LET r == StreamSwitch(l, peek, fset, re)
       IN  IF r.err
           THEN LET f == DeferredFlush(bw, sink)
                IN  /\ pc' = "done"
                    /\ ret' = RetStream("unknown")
                    /\ pulls' = pulls + 1
                    /\ bw' = f.buf
                    /\ sink' = f.sink
                    /\ UNCHANGED <<dec, peek, inp, l, emit, calls>>
           ELSE \E p \in NextOutcomes :
                    LET w1 == BufWrite(bw, sink, r.w)
                        w2 == BufWrite(w1.buf, w1.sink, Separator(peek, More(p), r.delim))
                    IN  /\ Handled(peek, r, p)
                        /\ bw' = w2.buf
                        /\ sink' = w2.sink
                        /\ UNCHANGED <<pc, ret>>
    /\ UNCHANGED <<scratch, fname, fset, re, fn, dst>>
    /\ UNCHANGED <<cliVars, parVars>>

\* if err == io.EOF { return bw.Flush() }
StreamEOF ==
    /\ pc = "run" /\ fname = "Stream" /\ peek.k = "eof"
    /\ LET f1 == BufFlush(bw, sink)
           f2 == DeferredFlush(f1.buf, f1.sink)
       IN  /\ bw' = f2.buf
           /\ sink' = f2.sink
    /\ pc' = "done"
    /\ ret' = RetStream("nil")
    /\ pulls' = pulls + 1
    /\ UNCHANGED <<scratch, fname, fset, re, fn, dec, peek, inp, l, dst, emit, calls>>
    /\ UNCHANGED <<cliVars, parVars>>

\* if err != nil { return err }
StreamError ==
    /\ pc = "run" /\ fname = "Stream" /\ peek.k = "err"
    /\ LET f == DeferredFlush(bw, sink)
       IN  /\ bw' = f.buf
           /\ sink' = f.sink
    /\ pc' = "done"
    /\ ret' = RetStream("token")
    /\ pulls' = pulls + 1
    /\ UNCHANGED <<scratch, fname, fset, re, fn, dec, peek, inp, l, dst, emit, calls>>
    /\ UNCHANGED <<cliVars, parVars>>

\* one iteration of Message's loop on a token
MessageToken ==
    /\ pc = "run" /\ fname = "Message" /\ peek.k \notin {"eof", "err"}
    /\ LET r == MessageSwitch(l, peek, fset, re)
       IN  IF r.err
           THEN /\ pc' = "done"
                /\ ret' = RetErr("unknown")
                /\ pulls' = pulls + 1
                /\ UNCHANGED <<dec, peek, inp, l, emit, calls, dst>>
           ELSE \E p \in NextOutcomes :
                    /\ Handled(peek, r, p)
                    /\ dst' = dst \o r.w \o Separator(peek, More(p), r.delim)
                    /\ UNCHANGED <<pc, ret>>
    /\ UNCHANGED <<scratch, fname, fset, re, fn, bw, sink>>
    /\ UNCHANGED <<cliVars, parVars>>

\* if err == io.EOF { return dst, nil }
MessageEOF ==
    /\ pc = "run" /\ fname = "Message" /\ peek.k = "eof"
    /\ pc' = "done"
    /\ ret' = RetBytes(dst)
    /\ pulls' = pulls + 1
    /\ UNCHANGED <<scratch, fname, fset, re, fn, dec, peek, inp, l, dst, bw, sink, emit, calls>>
    /\ UNCHANGED <<cliVars, parVars>>

\* if err != nil { return nil, err }
MessageError ==
    /\ pc = "run" /\ fname = "Message" /\ peek.k = "err"
    /\ pc' = "done"
    /\ ret' = RetErr("token")
    /\ pulls' = pulls + 1
    /\ UNCHANGED <<scratch, fname, fset, re, fn, dec, peek, inp, l, dst, bw, sink, emit, calls>>
    /\ UNCHANGED <<cliVars, parVars>>

\* one iteration of MessageFunc's loop on a token
MessageFuncToken ==
    /\ pc = "run" /\ fname = "MessageFunc" /\ peek.k \notin {"eof", "err"}
    /\ LET r == MessageFuncSwitch(l, peek, fn)
       IN  IF r.err
           THEN /\ pc' = "done"
                /\ ret' = RetErr("unknown")
                /\ pulls' = pulls + 1
                /\ UNCHANGED <<dec, peek, inp, l, emit, calls, dst>>
           ELSE \E p \in NextOutcomes :
                    /\ Handled(peek, r, p)
                    /\ dst' = dst \o r.w \o Separator(peek, More(p), r.delim)
                    /\ UNCHANGED <<pc, ret>>
    /\ UNCHANGED <<scratch, fname, fset, re, fn, bw, sink>>
    /\ UNCHANGED <<cliVars, parVars>>

\* if err == io.EOF { return dst, nil }
MessageFuncEOF ==
    /\ pc = "run" /\ fname = "MessageFunc" /\ peek.k = "eof"
    /\ pc' = "done"
    /\ ret' = RetBytes(dst)
    /\ pulls' = pulls + 1
    /\ UNCHANGED <<scratch, fname, fset, re, fn, dec, peek, inp, l, dst, bw, sink, emit, calls>>
    /\ UNCHANGED <<cliVars, parVars>>

\* if err != nil { return nil, err }
MessageFuncError ==
    /\ pc = "run" /\ fname = "MessageFunc" /\ peek.k = "err"
    /\ pc' = "done"
    /\ ret' = RetErr("token")
    /\ pulls' = pulls + 1
    /\ UNCHANGED <<scratch, fname, fset, re, fn, dec, peek, inp, l, dst, bw, sink, emit, calls>>
    /\ UNCHANGED <<cliVars, parVars>>

Next ==
    \/ CallStream
    \/ CallMessage
    \/ CallMessageFunc
    \/ StreamToken
    \/ StreamEOF
    \/ StreamError
    \/ MessageToken
    \/ MessageEOF
    \/ MessageError
    \/ MessageFuncToken
    \/ MessageFuncEOF
    \/ MessageFuncError

Spec == Init /\ [][Next]_vars

(***************************************************************************)
(* The command json-sanitize (src/cmd/json-sanitize/main.go).  It calls    *)
(* Stream(os.Stdout, os.Stdin, fn), the stream transcoder with a callback  *)
(* policy: that function is modelled from the specification's description  *)
(* of the callback policy and of the buffered output adapter, as Stream's  *)
(* loop with the string case of MessageFunc.                               *)
(***************************************************************************)
\* the usage text
usage == <<"usage">>
Redacted == <<"R", "E", "D", "A", "C", "T", "E", "D">>

\* the argument lists the command is started with
ArgLists == {<<>>, <<StrA>>, <<StrB, StrA>>}

\* run: m[k] = struct{}{} for each key; fn answers ("REDACTED", true) for
\* the keys of m and ("", false) for the others
RunFn(keys) == Fn({keys[i] : i \in 1..Len(keys)}, Redacted, <<>>)

\* err.Error() + "\n"
ErrorLine(e) == <<e, "LF">>

\* the exit status that always reports success
ExitStatusZero(err) == 0

\* main: os.Exit(1) when run returned an error, a normal return otherwise
ExitStatus(err) == IF err # "nil" THEN 1 ELSE 0

\* switch v := t.(type) of the stream transcoder with a callback policy
StreamFuncSwitch(loc, t, f) == MessageFuncSwitch(loc, t, f)

\* main up to the call of Stream: without arguments the usage text and
\* os.Exit(2); with arguments run builds fn and calls Stream
Main ==
    /\ pc = "idle" /\ exit = <<>>
    /\ \E args \in ArgLists, p \in FirstOutcomes :
        /\ argv' = args
        /\ IF Len(args) + 1 < 2
           THEN /\ stderr' = usage
                /\ exit' = <<2>>
                /\ pc' = "exited"
                /\ UNCHANGED <<fname, fn, peek>>
           ELSE /\ fname' = "StreamFunc"
                /\ fn' = RunFn(args)
                /\ peek' = p
                /\ pc' = "run"
                /\ UNCHANGED <<stderr, exit>>
    /\ UNCHANGED <<fset, re, dec, pulls, inp, l, dst, bw, sink, emit, calls, ret, scratch>>
    /\ UNCHANGED parVars

\* one iteration of the loop of Stream(w, r, fn) on a token
StreamFuncToken ==
    /\ pc = "run" /\ fname = "StreamFunc" /\ peek.k \notin {"eof", "err"}
    /\ LET r == StreamFuncSwitch(l, peek, fn)
       IN  IF r.err
           THEN LET f == DeferredFlush(bw, sink)
                IN  /\ pc' = "done"
                    /\ ret' = RetStream("unknown")
                    /\ pulls' = pulls + 1
                    /\ bw' = f.buf
                    /\ sink' = f.sink
                    /\ UNCHANGED <<dec, peek, inp, l, emit, calls>>
           ELSE \E p \in NextOutcomes :
                    LET w1 == BufWrite(bw, sink, r.w)
                        w2 == BufWrite(w1.buf, w1.sink, Separator(peek, More(p), r.delim))
                    IN  /\ Handled(peek, r, p)
                        /\ bw' = w2.buf
                        /\ sink' = w2.sink
                        /\ UNCHANGED <<pc, ret>>
    /\ UNCHANGED <<scratch, fname, fset, re, fn, dst>>
    /\ UNCHANGED <<cliVars, parVars>>

\* the end of the input: the buffer is flushed and Stream returns nil
StreamFuncEOF ==
    /\ pc = "run" /\ fname = "StreamFunc" /\ peek.k = "eof"
    /\ LET f1 == BufFlush(bw, sink)
           f2 == DeferredFlush(f1.buf, f1.sink)
       IN  /\ bw' = f2.buf
           /\ sink' = f2.sink
    /\ pc' = "done"
    /\ ret' = RetStream("nil")
    /\ pulls' = pulls + 1
    /\ UNCHANGED <<scratch, fname, fset, re, fn, dec, peek, inp, l, dst, emit, calls>>
    /\ UNCHANGED <<cliVars, parVars>>

\* a tokenizer error: the buffer is flushed and Stream returns the error
StreamFuncError ==
    /\ pc = "run" /\ fname = "StreamFunc" /\ peek.k = "err"
    /\ LET f == DeferredFlush(bw, sink)
       IN  /\ bw' = f.buf
           /\ sink' = f.sink
    /\ pc' = "done"
    /\ ret' = RetStream("token")
    /\ pulls' = pulls + 1
    /\ UNCHANGED <<scratch, fname, fset, re, fn, dec, peek, inp, l, dst, emit, calls>>
    /\ UNCHANGED <<cliVars, parVars>>

\* main after run has returned: the error text and os.Exit(1), or the
\* normal return
MainExit ==
    /\ pc = "done" /\ fname = "StreamFunc" /\ exit = <<>>
    /\ exit' = <<ExitStatus(ret.err)>>
    /\ stderr' = IF ret.err # "nil" THEN stderr \o ErrorLine(ret.err) ELSE stderr
    /\ pc' = "exited"
    /\ UNCHANGED <<fname, fset, re, fn, dec, peek, pulls, inp, l, dst, bw, sink, emit,
                   calls, ret, scratch, argv>>
    /\ UNCHANGED parVars

NextCli ==
    \/ Main
    \/ StreamFuncToken
    \/ StreamFuncEOF
    \/ StreamFuncError
    \/ MainExit

SpecCli == Init /\ [][NextCli]_vars

(***************************************************************************)
(* Two calls in flight at once, each a goroutine of the caller.  A call's  *)
(* state is its arguments and the local variables of the function; the     *)
(* package holds nothing a call writes (Mask, comma and colon are          *)
(* constants, errInvalidArguents is only read).  The steps of the two      *)
(* calls, one loop iteration each, interleave in any order.                *)
(***************************************************************************)
\* the sources of the concurrent calls: the tokens they hold and how they end
ParInputs ==
    {[toks |-> <<Tok("delim", "{"), Tok("str", StrA), Tok("str", StrB),
                 Tok("str", StrB), Tok("str", StrA), Tok("delim", "}")>>,
      end |-> Eof(FALSE)],
     [toks |-> <<Tok("delim", "{"), Tok("str", StrB), Tok("num", NumLit),
                 Tok("str", StrA), Tok("str", StrB), Tok("delim", "}")>>,
      end |-> Eof(FALSE)],
     [toks |-> <<Tok("delim", "["), Tok("str", StrA), Tok("delim", "{"),
                 Tok("str", StrA)>>,
      end |-> Err(TRUE)]}

\* the calls made concurrently: function and arguments
ParCalls ==
    {[fname |-> "Stream", fset |-> {}, re |-> Regexp({StrB}), fn |-> NilFn, d0 |-> <<>>],
     [fname |-> "Message", fset |-> {StrA}, re |-> NilRe, fn |-> NilFn, d0 |-> <<"z">>],
     [fname |-> "Message", fset |-> {}, re |-> NilRe, fn |-> NilFn, d0 |-> <<>>],
     [fname |-> "MessageFunc", fset |-> {}, re |-> NilRe,
      fn |-> Fn({StrA}, StrB, Mask), d0 |-> <<>>]}

\* the call c on the source in, up to the first iteration of its loop
Begin(c, in) ==
    LET invalid == IF c.fname = "MessageFunc" THEN InvalidFunc(c.fn)
                   ELSE InvalidPolicy(c.fset, c.re)
    IN  [pc |-> IF invalid THEN "done" ELSE "run",
         fname |-> c.fname, fset |-> c.fset, re |-> c.re, fn |-> c.fn, d0 |-> c.d0,
         toks |-> in.toks, end |-> in.end, k |-> 1, l |-> NewLocals,
         dst |-> IF invalid \/ c.fname = "Stream" THEN <<>> ELSE Truncate(c.d0),
         bw |-> <<>>, sink |-> <<>>,
         ret |-> IF ~invalid THEN NoRet
                 ELSE IF c.fname = "Stream" THEN RetStream("config") ELSE RetErr("config"),
         overlap |-> FALSE]

\* the return of call me when dec.Token() yields no token
ReturnOf(me) ==
    IF me.fname = "Stream"
    THEN LET f1 == IF me.end.k = "eof" THEN BufFlush(me.bw, me.sink)
                   ELSE [buf |-> me.bw, sink |-> me.sink]
             f2 == DeferredFlush(f1.buf, f1.sink)
         IN  [me EXCEPT !.pc = "done", !.bw = f2.buf, !.sink = f2.sink,
                        !.ret = RetStream(IF me.end.k = "eof" THEN "nil" ELSE "token")]
    ELSE [me EXCEPT !.pc = "done",
                    !.ret = IF me.end.k = "eof" THEN RetBytes(me.dst) ELSE RetErr("token")]

\* one iteration of the loop of call me, which finds loc in its variables
\* ds, cnt, sanitize, prevDelim and key
StepOf(me, loc) ==
    IF me.k > Len(me.toks) THEN ReturnOf(me)
    ELSE LET t == me.toks[me.k]
             more == More(IF me.k < Len(me.toks) THEN me.toks[me.k + 1] ELSE me.end)
             r == CASE me.fname = "Stream" -> StreamSwitch(loc, t, me.fset, me.re)
                    [] me.fname = "Message" -> MessageSwitch(loc, t, me.fset, me.re)
                    [] OTHER -> MessageFuncSwitch(loc, t, me.fn)
             sep == Separator(t, more, r.delim)
             w1 == BufWrite(me.bw, me.sink, r.w)
             w2 == BufWrite(w1.buf, w1.sink, sep)
         IN  IF r.err
             THEN IF me.fname = "Stream"
                  THEN LET f == DeferredFlush(me.bw, me.sink)
                       IN  [me EXCEPT !.pc = "done", !.bw = f.buf, !.sink = f.sink,
                                      !.ret = RetStream("unknown")]
                  ELSE [me EXCEPT !.pc = "done", !.ret = RetErr("unknown")]
             ELSE IF me.fname = "Stream"
             THEN [me EXCEPT !.k = me.k + 1, !.l = EndOfBody(r.l, t, more, r.delim),
                             !.bw = w2.buf, !.sink = w2.sink]
             ELSE [me EXCEPT !.k = me.k + 1, !.l = EndOfBody(r.l, t, more, r.delim),
                             !.dst = me.dst \o r.w \o sep]

\* the variables of call 1, found by every call
SharedLocals(ps, i) == ps[1].l

\* the variables ds, cnt, sanitize, prevDelim and key that call i finds:
\* its own, declared inside the function
LocalsOf(ps, i) == ps[i].l

\* call i begins
ParCall(i) ==
    /\ pc = "idle" /\ procs[i].pc = "idle"
    /\ \E c \in ParCalls, in \in ParInputs :
        procs' = [procs EXCEPT ![i] = Begin(c, in)]
    /\ UNCHANGED <<pc, fname, fset, re, fn, dec, peek, pulls, inp, l, dst, bw, sink,
                   emit, calls, ret, scratch, cliVars>>

\* call i runs one iteration of its loop, while the other call is where it is
ParStep(i) ==
    /\ pc = "idle" /\ procs[i].pc = "run"
    /\ LET other == procs[3 - i]
           new == StepOf(procs[i], LocalsOf(procs, i))
       IN  procs' = [procs EXCEPT ![i] =
                        [new EXCEPT !.overlap =
                            @ \/ (other.pc = "run" /\ other.k > 1 /\ procs[i].k > 1)]]
    /\ UNCHANGED <<pc, fname, fset, re, fn, dec, peek, pulls, inp, l, dst, bw, sink,
                   emit, calls, ret, scratch, cliVars>>

NextPar == \E i \in Procs : ParCall(i) \/ ParStep(i)

SpecPar == Init /\ [][NextPar]_vars

(***************************************************************************)
(* Properties                                                              *)
(***************************************************************************)
\* the output bytes produced so far
Out == IF fname \in {"Stream", "StreamFunc"} THEN sink \o bw ELSE dst

\* the offset in Out of the bytes written for token i
TokStart(i) == emit[i].at

\* the bytes of Out written for token i, and for the separator after it
OutTok(i) == SubSeq(Out, TokStart(i) + 1, TokStart(i) + Len(emit[i].tok))
OutSep(i) ==
    SubSeq(Out, TokStart(i) + Len(emit[i].tok) + 1,
           TokStart(i) + Len(emit[i].tok) + Len(emit[i].sep))

Seen == 1..Len(inp)
\* token i is a string that is the direct value of an object member
StringValue(i) == inp[i].role = "value" /\ inp[i].tok.k = "str"
\* the name of the member whose value token i is
OwnKey(i) == inp[i - 1].tok.v
\* the set/pattern policy of the call matches name k
KeyMatched(k) == k \in fset \/ (~re.nil /\ k \in re.lang)
\* the literal "********"
MaskLiteral == <<Quote, "*", "*", "*", "*", "*", "*", "*", "*", Quote>>
\* the input seen so far is complete: every container is closed
Complete == Len(inp) > 0 /\ inp[Len(inp)].depth = 0
\* the call has returned
Returned == pc = "done" /\ ret.err # "config"
\* the call returned at the end of a valid input: complete JSON values
ValidInput == pc = "done" /\ peek = Eof(FALSE) /\ Complete
\* the call returned at the end of one complete JSON document
ValidDocument == ValidInput /\ TopValues(inp) = 1

\* C1: when Message or Stream has transcoded a valid JSON document, every
\* string value whose own key the policy does not match was emitted as the
\* quoting of its original text, whatever came before it.
C1_UnmatchedValueKept ==
    fname \in {"Message", "Stream"} /\ ValidDocument =>
        \A i \in Seen :
            StringValue(i) /\ ~KeyMatched(OwnKey(i)) => OutTok(i) = AppendQuote(inp[i].tok.v)

\* C2: when Message or Stream has transcoded a valid input, every string
\* value bound to a key that is in fset or matched by re was emitted as the
\* literal "********", at every depth.
C2_MatchedValueMasked ==
    fname \in {"Message", "Stream"} /\ ValidInput =>
        \A i \in Seen :
            StringValue(i) /\ KeyMatched(OwnKey(i)) => OutTok(i) = MaskLiteral

\* a masked value two containers deep, under a key only the pattern matches
C2_Witness ==
    /\ fname \in {"Message", "Stream"}
    /\ ValidDocument
    /\ \E i \in Seen :
        /\ StringValue(i) /\ inp[i].depth >= 2
        /\ OwnKey(i) \notin fset /\ KeyMatched(OwnKey(i))
        /\ inp[i].tok.v # Mask /\ OutTok(i) = MaskLiteral

(***************************************************************************)
(* JSON string literals, as encoding/json reads them                       *)
(***************************************************************************)
ControlChars == {"BEL", "LF", "SOH", "BS", "FF", "CR", "TAB"}
HexDigits ==
    {"0", "1", "2", "3", "4", "5", "6", "7", "8", "9",
     "a", "b", "c", "d", "e", "f", "A", "B", "C", "D", "E", "F"}
Invalid == [ok |-> FALSE, s |-> <<>>]
Cons(c, r) == IF r.ok THEN [ok |-> TRUE, s |-> <<c>> \o r.s] ELSE Invalid
\* the character named by the four hex digits of a \u escape
UChar(h) ==
    CASE h = <<"0", "0", "0", "7">> -> "BEL"
      [] h \in {<<"0", "0", "0", "a">>, <<"0", "0", "0", "A">>} -> "LF"
      [] h = <<"0", "0", "0", "1">> -> "SOH"
      [] OTHER -> "U+" \o h[1] \o h[2] \o h[3] \o h[4]

RECURSIVE UnquoteBody(_, _)
\* the text of the literal body s[i..], or Invalid: the only escapes of JSON
\* are \" \\ \/ \b \f \n \r \t and \uXXXX, and no raw control character or
\* quote may stand in a string
UnquoteBody(s, i) ==
    IF i > Len(s) THEN [ok |-> TRUE, s |-> <<>>]
    ELSE IF s[i] = Backslash
    THEN IF i = Len(s) THEN Invalid
         ELSE CASE s[i + 1] = Quote -> Cons(Quote, UnquoteBody(s, i + 2))
                [] s[i + 1] = Backslash -> Cons(Backslash, UnquoteBody(s, i + 2))
                [] s[i + 1] = "/" -> Cons("/", UnquoteBody(s, i + 2))
                [] s[i + 1] = "b" -> Cons("BS", UnquoteBody(s, i + 2))
                [] s[i + 1] = "f" -> Cons("FF", UnquoteBody(s, i + 2))
                [] s[i + 1] = "n" -> Cons("LF", UnquoteBody(s, i + 2))
                [] s[i + 1] = "r" -> Cons("CR", UnquoteBody(s, i + 2))
                [] s[i + 1] = "t" -> Cons("TAB", UnquoteBody(s, i + 2))
                [] s[i + 1] = "u" ->
                      IF i + 5 <= Len(s) /\ \A j \in (i + 2)..(i + 5) : s[j] \in HexDigits
                      THEN Cons(UChar(SubSeq(s, i + 2, i + 5)), UnquoteBody(s, i + 6))
                      ELSE Invalid
                [] OTHER -> Invalid
    ELSE IF s[i] = Quote \/ s[i] \in ControlChars THEN Invalid
    ELSE Cons(s[i], UnquoteBody(s, i + 1))

\* the text of the JSON string literal lit, or Invalid
JsonUnquote(lit) ==
    IF Len(lit) >= 2 /\ lit[1] = Quote /\ lit[Len(lit)] = Quote
    THEN UnquoteBody(SubSeq(lit, 2, Len(lit) - 1), 1)
    ELSE Invalid

\* C3: after a valid document every string token was emitted as a valid
\* JSON string literal that decodes to the text of the token, so the output
\* is valid JSON.
C3_StringsAreJsonLiterals ==
    ValidDocument =>
      \A i \in Seen :
          inp[i].tok.k = "str" => JsonUnquote(OutTok(i)) = [ok |-> TRUE, s |-> emit[i].v]

\* the text the source writes for a token that is no string
PlainText(t) ==
    CASE t.k = "num" -> t.v
      [] t.k = "bool" -> IF t.v THEN <<"t", "r", "u", "e">> ELSE <<"f", "a", "l", "s", "e">>
      [] t.k = "null" -> <<"n", "u", "l", "l">>
      [] t.k = "delim" -> <<t.v>>
      [] OTHER -> AppendQuote(t.v)

\* the policy of the call, of either kind, matches name k
AnyPolicyMatches(k) == IF fname = "MessageFunc" THEN k \in fn.keys ELSE KeyMatched(k)

\* C4: whatever the input and the policy, when the call returns every
\* number, boolean and null token was emitted unchanged, also as the value
\* of a matched key; only a string in value position was ever emitted as
\* something else than its own text.
C4_NonStringsUnchanged ==
    Returned =>
      \A i \in Seen :
        /\ inp[i].tok.k \in {"num", "bool", "null"} => OutTok(i) = PlainText(inp[i].tok)
        /\ OutTok(i) # PlainText(inp[i].tok) => StringValue(i)

\* a number, a boolean or a null was written as the value of a matched key
C4_Witness ==
    /\ Returned
    /\ \E i \in Seen :
        /\ inp[i].role = "value" /\ inp[i].tok.k \in {"num", "bool", "null"}
        /\ AnyPolicyMatches(OwnKey(i))
        /\ OutTok(i) = PlainText(inp[i].tok)

\* the bytes of Out are one chunk per handled token, each followed by
\* nothing or by a ',' or ':' and one space
OneChunkPerToken ==
    /\ Len(emit) = Len(inp)
    /\ \A i \in Seen :
        /\ Len(emit[i].tok) > 0
        /\ OutSep(i) \in {<<>>, <<",", " ">>, <<":", " ">>}
        /\ TokStart(i) = IF i = 1 THEN 0
                         ELSE TokStart(i - 1) + Len(emit[i - 1].tok) + Len(emit[i - 1].sep)
    /\ Len(Out) = IF inp = <<>> THEN 0
                  ELSE TokStart(Len(inp)) + Len(emit[Len(inp)].tok) + Len(emit[Len(inp)].sep)

\* C5: after a valid document the output has one token per input token:
\* the same delimiter at each position of a delimiter, the same key name at
\* each position of a key (never a replacement), the same element at each
\* position of an array element.
C5_StructurePreserved ==
    ValidDocument =>
        /\ OneChunkPerToken
        /\ \A i \in Seen :
            inp[i].role \in {"delim", "key", "elem"} => OutTok(i) = PlainText(inp[i].tok)

\* a document with a nested container, a key that the policy matches and
\* an array element equal to a matched name
C5_Witness ==
    /\ ValidDocument
    /\ \E i, j \in Seen :
        /\ inp[i].role = "key" /\ AnyPolicyMatches(inp[i].tok.v) /\ inp[i].depth = 2
        /\ inp[j].role = "elem" /\ inp[j].tok.k = "str" /\ AnyPolicyMatches(inp[j].tok.v)

\* C6: Stream and Message called with neither a set nor a pattern, and
\* MessageFunc called with a nil fn, return the configuration error (and
\* nil bytes) with no token pulled and no byte written; no other call
\* returns that error.
C6_ConfigErrorBeforeIO ==
    fname # "none" =>
        LET invalid ==
                IF fname = "MessageFunc" THEN fn.nil ELSE re.nil /\ fset = {}
        IN  /\ invalid =>
                /\ pc = "done" /\ ret.err = "config" /\ ret.nil
                /\ pulls = 0 /\ inp = <<>>
                /\ sink = <<>> /\ bw = <<>> /\ dst = <<>>
            /\ ret.err = "config" => invalid

\* MessageFunc was handed a nil fn and has returned the configuration error
\* with nil bytes
C6_Witness ==
    /\ pc = "done" /\ ret.err = "config" /\ ret.nil /\ pulls = 0
    /\ fname = "MessageFunc" /\ fn.nil

RECURSIVE EmitBytes(_)
\* the bytes produced for the first n tokens handled and their separators
EmitBytes(n) ==
    IF n = 0 THEN <<>> ELSE EmitBytes(n - 1) \o emit[n].tok \o emit[n].sep

\* C7: when Stream returns after the policy check, on the end of the input
\* or on an error, its buffer is empty and the sink holds exactly the bytes
\* produced for the tokens handled, in order.
C7_StreamFlushesOnEveryExit ==
    fname = "Stream" /\ Returned => bw = <<>> /\ sink = EmitBytes(Len(emit))

\* Stream returned a tokenizer error after it had written more than one
\* buffer of bytes
C7_Witness ==
    /\ fname = "Stream" /\ pc = "done" /\ ret.err = "token"
    /\ Len(sink) > BufSize /\ Len(sink) % BufSize # 0 /\ Len(inp) >= 3

RECURSIVE ExpectedCalls(_)
\* the calls of fn that the first n tokens ask for: one per string that is
\* the direct value of a member, with the member's own name
ExpectedCalls(n) ==
    IF n = 0 THEN <<>>
    ELSE ExpectedCalls(n - 1) \o
            (IF StringValue(n)
             THEN <<[key |-> OwnKey(n), value |-> inp[n].tok.v, at |-> n]>>
             ELSE <<>>)

\* C8: when MessageFunc has transcoded a valid input, fn was invoked
\* exactly once for each string that is the direct value of a member, in
\* order, with that member's own key and the original value, and for
\* nothing else.
C8_CallbackPerStringValue ==
    fname = "MessageFunc" /\ ValidInput => calls = ExpectedCalls(Len(inp))

\* fn was called for a member that follows a member with a number value
\* and for a member of a nested object, and not for the string elements
C8_Witness ==
    /\ fname = "MessageFunc" /\ ValidInput
    /\ \E i, j \in Seen :
        /\ StringValue(i) /\ i > 3 /\ inp[i - 2].tok.k # "str" /\ inp[i - 2].role = "value"
        /\ \E c \in 1..Len(calls) : calls[c].at = i
        /\ inp[j].tok.k = "str" /\ inp[j].role \in {"elem", "key"}

\* C9: when MessageFunc returns, each string value for which fn answered
\* doReplace = true was emitted as newValue, and each one for which it
\* answered false as the original value.
C9_ReplacementFollowsCallback ==
    fname = "MessageFunc" /\ Returned =>
        \A i \in Seen :
            StringValue(i) =>
                LET r == CallFn(fn, OwnKey(i), inp[i].tok.v)
                IN  OutTok(i) = AppendQuote(IF r.doReplace THEN r.newValue ELSE inp[i].tok.v)

\* one document with a replaced value and with a value fn declined to
\* replace while offering another text
C9_Witness ==
    /\ fname = "MessageFunc" /\ ValidDocument
    /\ \E i, j \in Seen :
        /\ StringValue(i) /\ CallFn(fn, OwnKey(i), inp[i].tok.v).doReplace
        /\ OutTok(i) # AppendQuote(inp[i].tok.v)
        /\ StringValue(j) /\ ~CallFn(fn, OwnKey(j), inp[j].tok.v).doReplace
        /\ CallFn(fn, OwnKey(j), inp[j].tok.v).newValue # inp[j].tok.v

(***************************************************************************)
(* Reading output bytes back: json.Decoder over a byte sequence            *)
(***************************************************************************)
Whitespace == {" ", "LF", "CR", "TAB"}
Digits == {"0", "1", "2", "3", "4", "5", "6", "7", "8", "9"}
NumberChars == Digits \cup {"-", "+", ".", "e", "E"}

RECURSIVE SkipWs(_, _)
\* the first index from i on that holds no white space
SkipWs(b, i) == IF i <= Len(b) /\ b[i] \in Whitespace THEN SkipWs(b, i + 1) ELSE i

RECURSIVE StrEnd(_, _)
\* the index of the quote that closes a string whose body starts at j; 0 if none
StrEnd(b, j) ==
    IF j > Len(b) THEN 0
    ELSE IF b[j] = Backslash THEN StrEnd(b, j + 2)
    ELSE IF b[j] = Quote THEN j
    ELSE StrEnd(b, j + 1)

RECURSIVE NumEnd(_, _)
\* the index after the run of number characters that starts at j
NumEnd(b, j) == IF j <= Len(b) /\ b[j] \in NumberChars THEN NumEnd(b, j + 1) ELSE j

\* the scanner's number grammar, one character at a time
NumStep(st, c) ==
    CASE st = "start" /\ c = "-" -> "neg"
      [] st \in {"start", "neg"} /\ c = "0" -> "zero"
      [] st \in {"start", "neg"} /\ c \in Digits -> "int"
      [] st = "int" /\ c \in Digits -> "int"
      [] st \in {"zero", "int"} /\ c = "." -> "dot"
      [] st \in {"dot", "frac"} /\ c \in Digits -> "frac"
      [] st \in {"zero", "int", "frac"} /\ c \in {"e", "E"} -> "e"
      [] st = "e" /\ c \in {"+", "-"} -> "esign"
      [] st \in {"e", "esign", "exp"} /\ c \in Digits -> "exp"
      [] OTHER -> "bad"

RECURSIVE NumState(_, _, _)
NumState(run, i, st) ==
    IF i > Len(run) THEN st ELSE NumState(run, i + 1, NumStep(st, run[i]))

ValidNumber(run) == NumState(run, 1, "start") \in {"zero", "int", "frac", "exp"}

Lexeme(k, v, next) == [k |-> k, v |-> v, next |-> next]
StartsWith(b, i, w) == i + Len(w) - 1 <= Len(b) /\ SubSeq(b, i, i + Len(w) - 1) = w

\* the lexeme of b that starts at the first non-blank index from i on
Lex(b, i) ==
    LET j == SkipWs(b, i)
    IN  IF j > Len(b) THEN Lexeme("eof", FALSE, j)
        ELSE CASE b[j] \in {"{", "}", "[", "]"} -> Lexeme("delim", b[j], j + 1)
               [] b[j] \in {comma, colon} -> Lexeme("sep", b[j], j + 1)
               [] b[j] = Quote ->
                     LET e == StrEnd(b, j + 1)
                         u == IF e = 0 THEN Invalid ELSE JsonUnquote(SubSeq(b, j, e))
                     IN  IF u.ok THEN Lexeme("str", u.s, e + 1) ELSE Lexeme("err", FALSE, j)
               [] StartsWith(b, j, <<"t", "r", "u", "e">>) -> Lexeme("bool", TRUE, j + 4)
               [] StartsWith(b, j, <<"f", "a", "l", "s", "e">>) -> Lexeme("bool", FALSE, j + 5)
               [] StartsWith(b, j, <<"n", "u", "l", "l">>) -> Lexeme("null", <<>>, j + 4)
               [] b[j] \in Digits \cup {"-"} ->
                     LET e == NumEnd(b, j)
                     IN  IF ValidNumber(SubSeq(b, j, e - 1))
                         THEN Lexeme("num", SubSeq(b, j, e - 1), e)
                         ELSE Lexeme("err", FALSE, j)
               [] OTHER -> Lexeme("err", FALSE, j)

\* dec.More() at index i of b
PeekMore(b, i) == LET j == SkipWs(b, i) IN j <= Len(b) /\ b[j] \notin {"]", "}"}

RECURSIVE ReadToken(_, _, _)
\* dec.Token() at index i in decoder state d: separators are consumed on the
\* way; the result is a token, the end of the input or an error
ReadToken(b, i, d) ==
    LET x == Lex(b, i)
        d1 == DecLex(d, Tok(x.k, x.v))
    IN  CASE x.k \in {"eof", "err"} -> [k |-> x.k, tok |-> Tok(x.k, FALSE), d |-> d, next |-> i]
          [] d1.bad -> [k |-> "err", tok |-> Tok("err", FALSE), d |-> d, next |-> i]
          [] x.k = "sep" -> ReadToken(b, x.next, d1)
          [] OTHER -> [k |-> "tok", tok |-> Tok(x.k, x.v), d |-> d1, next |-> x.next]

RECURSIVE DecodeFrom(_, _, _)
DecodeFrom(b, i, d) ==
    LET r == ReadToken(b, i, d)
    IN  IF r.k = "tok"
        THEN LET rest == DecodeFrom(b, r.next, r.d)
             IN  [toks |-> <<r.tok>> \o rest.toks, end |-> rest.end]
        ELSE [toks |-> <<>>, end |-> Tok(r.k, PeekMore(b, i))]

\* the token stream of the bytes b: its tokens and how it ends
Decode(b) == DecodeFrom(b, 1, NewDecoder)

RECURSIVE MessageLoop(_, _, _, _, _, _)
\* Message's loop from token k of toks on, the locals being loc and the
\* result buffer d
MessageLoop(toks, end, k, loc, d, pol) ==
    IF k > Len(toks)
    THEN IF end.k = "eof" THEN RetBytes(d) ELSE RetErr("token")
    ELSE LET t == toks[k]
             more == More(IF k < Len(toks) THEN toks[k + 1] ELSE end)
             r == MessageSwitch(loc, t, pol[1], pol[2])
         IN  IF r.err THEN RetErr("unknown")
             ELSE MessageLoop(toks, end, k + 1, EndOfBody(r.l, t, more, r.delim),
                              d \o r.w \o Separator(t, more, r.delim), pol)

\* Message(nil, src, fset, re) for the source bytes src
MessageOf(src, fs, r) ==
    IF InvalidPolicy(fs, r) THEN RetErr("config")
    ELSE LET in == Decode(src)
         IN  MessageLoop(in.toks, in.end, 1, NewLocals, <<>>, <<fs, r>>)

\* C10: when Message has returned the transcoding of a valid document,
\* Message on those bytes with the same fset and re succeeds and returns the
\* same bytes.
C10_MessageIdempotent ==
    fname = "Message" /\ ValidDocument /\ ret.err = "nil" =>
        MessageOf(ret.bytes, fset, re) = RetBytes(ret.bytes)

\* reading the output back yields the tokens that were written, as long as
\* no string was quoted with an escape unknown to JSON
ReadBackAgrees ==
    ValidDocument /\ (\A i \in Seen : inp[i].tok.k = "str" => JsonUnquote(emit[i].tok).ok) =>
        LET in == Decode(Out)
        IN  /\ in.end = Eof(FALSE)
            /\ Len(in.toks) = Len(inp)
            /\ \A i \in Seen :
                in.toks[i] = IF inp[i].tok.k = "str" THEN Tok("str", emit[i].v) ELSE inp[i].tok

\* C10 on documents whose strings need no escape unknown to JSON
IdempotentOnPlainStrings ==
    /\ fname = "Message" /\ ValidDocument /\ ret.err = "nil"
    /\ \A i \in Seen : inp[i].tok.k = "str" => JsonUnquote(emit[i].tok).ok
    => MessageOf(ret.bytes, fset, re) = RetBytes(ret.bytes)

(***************************************************************************)
(* Whole calls as functions of the token stream of the source              *)
(***************************************************************************)
\* the tokens handled so far
Tokens(in) == [i \in 1..Len(in) |-> in[i].tok]

\* Message(d0, src, fs, r), src holding the tokens toks and ending with end
MessageRun(toks, end, d0, fs, r) ==
    IF InvalidPolicy(fs, r) THEN RetErr("config")
    ELSE MessageLoop(toks, end, 1, NewLocals, Truncate(d0), <<fs, r>>)

RECURSIVE MessageFuncLoop(_, _, _, _, _, _)
\* MessageFunc's loop from token k of toks on, the locals being loc and the
\* result buffer d
MessageFuncLoop(toks, end, k, loc, d, f) ==
    IF k > Len(toks)
    THEN IF end.k = "eof" THEN RetBytes(d) ELSE RetErr("token")
    ELSE LET t == toks[k]
             more == More(IF k < Len(toks) THEN toks[k + 1] ELSE end)
             r == MessageFuncSwitch(loc, t, f)
         IN  IF r.err THEN RetErr("unknown")
             ELSE MessageFuncLoop(toks, end, k + 1, EndOfBody(r.l, t, more, r.delim),
                                  d \o r.w \o Separator(t, more, r.delim), f)

\* MessageFunc(d0, src, f), src holding the tokens toks and ending with end
MessageFuncRun(toks, end, d0, f) ==
    IF InvalidFunc(f) THEN RetErr("config")
    ELSE MessageFuncLoop(toks, end, 1, NewLocals, Truncate(d0), f)

\* the callback that realizes the policy (fs, r): (Mask, true) for the keys
\* in fs or matched by r, ("", false) for the others
PolicyFn(fs, r) == Fn({k \in Strs \cup {Mask} : Matches(k, fs, r)}, Mask, <<>>)

\* C11: when Message has transcoded a valid input, MessageFunc on the same
\* source with the callback that realizes (fset, re) returns the same bytes.
C11_PolicyRealizationsAgree ==
    fname = "Message" /\ ValidInput /\ ret.err = "nil" =>
        MessageFuncRun(Tokens(inp), peek, <<>>, PolicyFn(fset, re)) = RetBytes(ret.bytes)

\* the two realizations agree on the inputs in which every matched key has
\* a string value
AgreeWhenMatchedValuesAreStrings ==
    /\ fname = "Message" /\ ValidInput /\ ret.err = "nil"
    /\ \A i \in Seen :
        inp[i].role = "key" /\ KeyMatched(inp[i].tok.v) => inp[i + 1].tok.k = "str"
    => MessageFuncRun(Tokens(inp), peek, <<>>, PolicyFn(fset, re)) = RetBytes(ret.bytes)

\* the input is malformed: the tokenizer fails, or the input ends inside a
\* container
Malformed == peek.k = "err" \/ (peek.k = "eof" /\ dec.stk # <<>>)

\* C12: a call that returns on a malformed input, in particular on an input
\* that ends while a container is open, returns a non-nil error.
C12_MalformedInputFails ==
    Returned /\ Malformed => ret.err # "nil"

\* a tokenizer failure always ends the call with an error
TokenizerErrorFails ==
    Returned /\ peek.k = "err" => ret.err = "token"

\* C13: after a valid input of one or more top-level values, no separator
\* was written after a token that ends a top-level value.
C13_NoSeparatorAtDepthZero ==
    ValidInput =>
        \A i \in Seen : inp[i].depth = 0 => OutSep(i) = <<>>

\* the result of the call in progress for a nil dst
ResultForNilDst ==
    IF fname = "Message"
    THEN MessageRun(Tokens(inp), peek, <<>>, fset, re)
    ELSE MessageFuncRun(Tokens(inp), peek, <<>>, fn)

\* C14: when Message or MessageFunc returns nil error, the bytes returned
\* are the bytes the call returns for a nil dst, whatever dst held; when it
\* returns an error, the bytes returned are nil.
C14_ScratchDoesNotMatter ==
    fname \in {"Message", "MessageFunc"} /\ pc = "done" =>
        IF ret.err = "nil"
        THEN ~ret.nil /\ RetBytes(ret.bytes) = ResultForNilDst
        ELSE ret.nil /\ ret.bytes = <<>>

\* a call given a scratch buffer with bytes in it returned output that is
\* shorter than the scratch buffer was
C14_Witness ==
    /\ fname \in {"Message", "MessageFunc"} /\ pc = "done" /\ ret.err = "nil"
    /\ scratch # <<>> /\ ret.bytes # <<>> /\ Len(ret.bytes) < Len(scratch)

(***************************************************************************)
(* The structural context: ds, cnt and the test for a key                  *)
(***************************************************************************)
\* the kind of container the decoder is in when its state is ts
KindOf(ts) == IF ts \in {"objStart", "objKey", "objColon", "objValue", "objComma"}
              THEN "{" ELSE "["

\* the containers the decoder has open, outermost first
OpenContainers(d) ==
    [i \in 1..Len(d.stk) |-> KindOf(IF i < Len(d.stk) THEN d.stk[i + 1] ELSE d.ts)]

\* C16: whenever a string token is about to be visited, the test "cnt is odd
\* and the top of ds is '{'" is true exactly when the token is the name of
\* an object member.
C16_KeyTestIsExact ==
    pc = "run" /\ peek.k = "str" => (KeyPosition(l) <=> RoleOf(dec, peek) = "key")

\* a string is about to be visited as a key right after a nested container
\* has closed
C16_Witness ==
    /\ pc = "run" /\ peek.k = "str" /\ Len(inp) > 0
    /\ RoleOf(dec, peek) = "key" /\ KeyPosition(l)
    /\ IsClose(inp[Len(inp)].tok)

\* a string equal to a matched name is about to be visited as an array
\* element while cnt is odd
ElementIsNoKey ==
    /\ pc = "run" /\ peek.k = "str"
    /\ RoleOf(dec, peek) = "elem" /\ ~KeyPosition(l)
    /\ AnyPolicyMatches(peek.v) /\ l.cnt % 2 = 1

RECURSIVE Balance(_)
\* the opening delimiters among the first n tokens handled that have no
\* closing delimiter among them
Balance(n) ==
    IF n = 0 THEN 0
    ELSE Balance(n - 1) + (IF IsOpen(inp[n].tok) THEN 1 ELSE IF IsClose(inp[n].tok) THEN -1 ELSE 0)

\* C17: inside a call, after each token, ds holds the kinds of the
\* containers that are open, outermost first; it is empty before the first
\* token and exactly when every container opened so far has been closed;
\* and a closing delimiter about to be handled finds its own kind on top.
C17_StackTracksContainers ==
    pc = "run" \/ Returned =>
        /\ l.ds = OpenContainers(dec)
        /\ Len(l.ds) = Balance(Len(inp))
        /\ (l.ds = <<>>) <=> (inp = <<>> \/ inp[Len(inp)].depth = 0)
        /\ pc = "run" /\ IsClose(peek) =>
              /\ l.ds # <<>>
              /\ l.ds[Len(l.ds)] = (IF peek.v = "}" THEN "{" ELSE "[")

\* the stack is empty again after an array inside an object was open
C17_Witness ==
    /\ pc = "run" /\ l.ds = <<>> /\ Len(inp) >= 4
    /\ \E i \in Seen :
        /\ inp[i].tok = Tok("delim", "[") /\ inp[i].depth = 2
        /\ inp[1].tok = Tok("delim", "{")

\* the separator bytes the grammar asks for after token i of a valid input,
\* i being a token inside a container
ExpectedSep(i) ==
    IF inp[i].role = "key" THEN <<colon, " ">>
    ELSE IF IsOpen(inp[i].tok) THEN <<>>
    ELSE IF IsClose(inp[i + 1].tok) THEN <<>>
    ELSE <<comma, " ">>

C19_StreamIsMessage ==
    fname = "Stream" /\ pc = "done" =>
        LET m == MessageRun(Tokens(inp), peek, <<>>, fset, re)
        IN  /\ (ret.err = "nil") <=> (m.err = "nil")
            /\ ret.err = "nil" => sink = m.bytes /\ bw = <<>>

\* Stream has written, through several buffers, a document in which it
\* masked a value
C19_Witness ==
    /\ fname = "Stream" /\ ValidDocument /\ ret.err = "nil"
    /\ Len(sink) > 2 * BufSize
    /\ \E i \in Seen : StringValue(i) /\ OutTok(i) = MaskLiteral /\ inp[i].tok.v # Mask

\* C15: when the command has exited, its status is 2 if it was given no
\* field name, and then the usage text is all it wrote and standard input
\* was not read; otherwise its status is 1 if the transcoding returned an
\* error, and then the error text and a newline went to standard error; and
\* otherwise its status is 0 and nothing went to standard error.
C15_ExitStatus ==
    exit # <<>> =>
        IF argv = <<>>
        THEN /\ exit = <<2>> /\ stderr = usage
             /\ pulls = 0 /\ inp = <<>> /\ sink = <<>> /\ bw = <<>>
        ELSE IF ret.err # "nil"
        THEN exit = <<1>> /\ stderr = ErrorLine(ret.err)
        ELSE exit = <<0>> /\ stderr = <<>>

\* the command has exited with status 1 after it had written a part of the
\* output, a redacted value in it
C15_Witness ==
    /\ exit = <<1>> /\ Len(sink) > BufSize
    /\ \E i \in Seen : StringValue(i) /\ OutTok(i) = AppendQuote(Redacted)

\* the command has exited with status 0 and with status 2
ExitsWithZero == exit = <<0>> /\ peek = Eof(FALSE) /\ Complete /\ TopValues(inp) = 1
ExitsWithTwo == exit = <<2>>

RECURSIVE StreamLoop(_, _, _, _, _, _, _)
\* Stream's loop from token k of toks on, the locals being loc, the buffer
\* buf and the sink snk
StreamLoop(toks, end, k, loc, buf, snk, pol) ==
    IF k > Len(toks)
    THEN IF end.k = "eof"
         THEN LET f1 == BufFlush(buf, snk)
              IN  [ret |-> RetStream("nil"), sink |-> DeferredFlush(f1.buf, f1.sink).sink]
         ELSE [ret |-> RetStream("token"), sink |-> DeferredFlush(buf, snk).sink]
    ELSE LET t == toks[k]
             more == More(IF k < Len(toks) THEN toks[k + 1] ELSE end)
             r == StreamSwitch(loc, t, pol[1], pol[2])
             w1 == BufWrite(buf, snk, r.w)
             w2 == BufWrite(w1.buf, w1.sink, Separator(t, more, r.delim))
         IN  IF r.err
             THEN [ret |-> RetStream("unknown"), sink |-> DeferredFlush(buf, snk).sink]
             ELSE StreamLoop(toks, end, k + 1, EndOfBody(r.l, t, more, r.delim),
                             w2.buf, w2.sink, pol)

\* Stream(w, r, fs, r) for a source holding the tokens toks and ending
\* with end: what it returns and what w has received
StreamRun(toks, end, fs, r) ==
    IF InvalidPolicy(fs, r) THEN [ret |-> RetStream("config"), sink |-> <<>>]
    ELSE StreamLoop(toks, end, 1, NewLocals, <<>>, <<>>, <<fs, r>>)

\* what call me gives its caller when it runs with no other call in flight
Alone(me) ==
    CASE me.fname = "Stream" -> StreamRun(me.toks, me.end, me.fset, me.re)
      [] me.fname = "Message" ->
            [ret |-> MessageRun(me.toks, me.end, me.d0, me.fset, me.re), sink |-> <<>>]
      [] OTHER -> [ret |-> MessageFuncRun(me.toks, me.end, me.d0, me.fn), sink |-> <<>>]

\* C20: when a call made while another call is in flight returns, the
\* error and bytes it returns and the bytes its sink holds are those the
\* same call gives when it runs alone, however the iterations of the two
\* calls interleaved.
C20_ConcurrentCallsIndependent ==
    \A i \in Procs :
        procs[i].pc = "done" =>
            [ret |-> procs[i].ret, sink |-> procs[i].sink] = Alone(procs[i])

\* both calls have returned without error after iterations of each ran
\* while the other call was inside its loop, the two being different
\* functions on different sources
C20_Witness ==
    /\ \A i \in Procs : procs[i].pc = "done" /\ procs[i].overlap /\ procs[i].ret.err = "nil"
    /\ procs[1].fname = "Stream" /\ procs[2].fname = "MessageFunc"
    /\ procs[1].toks # procs[2].toks
    /\ procs[1].sink # <<>> /\ procs[2].ret.bytes # procs[1].sink

====
